---- MODULE Spec2Model ----
(***************************************************************************)
(* Model of the Aliev-Panfilov monodomain solver AP_2D_HeteroSpiral.py:    *)
(* the grid state, the periodic boundary operator, the forward-Euler       *)
(* stepper (runge_kutta_step), the stimulus scheduler (apply_stimuli) and  *)
(* the driver loop that samples frames.                                    *)
(*                                                                         *)
(* Numbers.  Every float of the program is represented by the integer      *)
(* value * S (S = 10^4): a = 0.01 is 100, dt = 0.01 is 100, tfin = 100.0   *)
(* is 1000000.  A float operation is the exact operation followed by       *)
(* rounding to the nearest representable value; here the representable     *)
(* values are the multiples of 1/S (fmul, fdiv).  Sums and differences of  *)
(* representable values are exact.  For the values the program compares    *)
(* (t = step*dt against the stimulus windows, int(tfin/dt)) the float64    *)
(* results coincide with this arithmetic.                                  *)
(***************************************************************************)
EXTENDS Integers, Sequences, FiniteSets, TLC

(***************************************************************************)
(* Bounds of the model (the program runs a 500 x 500 grid for 100 s).      *)
(***************************************************************************)
nx == 7
ny == 7
\* simulated end time of the bounded runs, in units of 1/S seconds (2.3 s)
tfin == 23000
\* largest side of the input fields given to the boundary operator alone
MaxN == 4
\* largest cell value of those input fields
MaxVal == 2

(***************************************************************************)
(* Program constants, scaled by S.                                         *)
(***************************************************************************)
S == 10000
D0 == 500
Dfac == 1000
a == 100
b == 1500
k == 80000
epsilon_0 == 20
mu1 == 2000
mu2 == 3000
dx == 1000
dt == 100
tfin_ref == 1000000
stimulus_duration == 1000
stimulus_amplitude == 10000
stride == 50
\* the program's stimulus_times, [0.5, 2.0]
stimulus_times_ref == <<5000, 20000>>

VARIABLES
    stimulus_positions,  \* configuration: sequence of sites <<i, j>>
    stimulus_times,      \* configuration: sequence of onsets
    time_steps,          \* number of steps of the run, int(tfin / dt)
    u, v,                \* the live fields
    u_old, v_old,        \* runge_kutta_step's copies
    laplacian, du_dt, dv_dt,  \* runge_kutta_step's interior arrays
    step, t,             \* the driver's loop variable and simulated time
    frames,              \* the sequence of sampled frames
    pc                   \* position in the program

vars == <<stimulus_positions, stimulus_times, time_steps, u, v, u_old, v_old,
          laplacian, du_dt, dv_dt, step, t, frames, pc>>

(***************************************************************************)
(* Float arithmetic on scaled integers.                                    *)
(***************************************************************************)
\* n / d rounded to the nearest integer, d > 0
Round(n, d) == (n \div d) + (IF 2 * (n % d) >= d THEN 1 ELSE 0)

\* x * y: the exact product x*y/S, rounded; split so that no intermediate
\* product leaves the 32-bit range
fmul(x, y) ==
    LET xq == x \div S
        xr == x % S
        yq == y \div S
        yr == y % S
    IN  xq * y + xr * yq + Round(xr * yr, S)

\* x / y: the exact quotient x*S/y, rounded
fdiv(x, y) ==
    LET sg == IF y < 0 THEN -1 ELSE 1
        n == sg * x
        d == sg * y
    IN  (n \div d) * S + Round((n % d) * S, d)

(***************************************************************************)
(* Arrays: a 2-D array is a function row -> (column -> value), 0-based.    *)
(***************************************************************************)
Rows(arr) == Cardinality(DOMAIN arr)
Cols(arr) == Cardinality(DOMAIN arr[0])

\* a numpy index: negative indices count from the end
Idx(i, n) == IF i < 0 THEN i + n ELSE i

\* the indices selected by the numpy slice lo:hi on an axis of length n
SliceIdx(lo, hi, n) ==
    LET clip(x) == IF x < 0 THEN (IF x + n < 0 THEN 0 ELSE x + n)
                   ELSE IF x > n THEN n ELSE x
    IN  {r \in 0..(n - 1) : clip(lo) <= r /\ r < clip(hi)}

zeros(r, c) == [i \in 0..(r - 1) |-> [j \in 0..(c - 1) |-> 0]]

\* D = D0 * ones; D[4nx//10 : 5nx//10, 4ny//10 : 5ny//10] *= Dfac
D ==
    [i \in 0..(nx - 1) |-> [j \in 0..(ny - 1) |->
        IF /\ i \in SliceIdx((4 * nx) \div 10, (5 * nx) \div 10, nx)
           /\ j \in SliceIdx((4 * ny) \div 10, (5 * ny) \div 10, ny)
        THEN fmul(fmul(D0, S), Dfac)
        ELSE fmul(D0, S)]]

\* variant: row 0 is copied from the last row instead of the last interior row
apply_periodic_boundary_last_row(arr) ==
    LET r == Rows(arr)
        c == Cols(arr)
        a1 == [arr EXCEPT ![0] = arr[Idx(-1, r)]]
        a2 == [a1 EXCEPT ![Idx(-1, r)] = a1[1]]
        a3 == [i \in DOMAIN a2 |-> [a2[i] EXCEPT ![0] = a2[i][Idx(-2, c)]]]
        a4 == [i \in DOMAIN a3 |-> [a3[i] EXCEPT ![Idx(-1, c)] = a3[i][1]]]
    IN  a4

(***************************************************************************)
(* apply_periodic_boundary: four assignments, in this order.               *)
(***************************************************************************)
apply_periodic_boundary(arr) ==
    LET r == Rows(arr)
        c == Cols(arr)
        a1 == [arr EXCEPT ![0] = arr[Idx(-2, r)]]
        a2 == [a1 EXCEPT ![Idx(-1, r)] = a1[1]]
        a3 == [i \in DOMAIN a2 |-> [a2[i] EXCEPT ![0] = a2[i][Idx(-2, c)]]]
        a4 == [i \in DOMAIN a3 |-> [a3[i] EXCEPT ![Idx(-1, c)] = a3[i][1]]]
    IN  a4

(***************************************************************************)
(* epsilon(u, v) = epsilon_0 + (mu1 * v) / (u + mu2)                       *)
(***************************************************************************)
epsilon(uu, vv) == epsilon_0 + fdiv(fmul(mu1, vv), uu + mu2)

(***************************************************************************)
(* apply_stimuli(u, t, dt): for every onset whose window holds t, for      *)
(* every site, u[i-1:i+2, j-1:j+2] += stimulus_amplitude.                  *)
(***************************************************************************)
\* variant: the window closed at its end
StimActiveClosed(stim_time, tt) ==
    stim_time <= tt /\ tt <= stim_time + stimulus_duration

StimActive(stim_time, tt) ==
    stim_time <= tt /\ tt < stim_time + stimulus_duration

\* one  u[i-1:i+2, j-1:j+2] += stimulus_amplitude
AddAtSite(arr, site) ==
    LET rs == SliceIdx(site[1] - 1, site[1] + 2, Rows(arr))
        cs == SliceIdx(site[2] - 1, site[2] + 2, Cols(arr))
    IN  [i \in DOMAIN arr |-> [j \in DOMAIN arr[i] |->
            IF i \in rs /\ j \in cs THEN arr[i][j] + stimulus_amplitude
            ELSE arr[i][j]]]

RECURSIVE AddAtSites(_, _, _)
AddAtSites(arr, sites, n) ==
    IF n > Len(sites) THEN arr
    ELSE AddAtSites(AddAtSite(arr, sites[n]), sites, n + 1)

RECURSIVE StimLoop(_, _, _, _, _)
StimLoop(arr, times, sites, tt, n) ==
    IF n > Len(times) THEN arr
    ELSE StimLoop(IF StimActive(times[n], tt) THEN AddAtSites(arr, sites, 1)
                  ELSE arr,
                  times, sites, tt, n + 1)

apply_stimuli(arr, times, sites, tt) == StimLoop(arr, times, sites, tt, 1)

(***************************************************************************)
(* The interior arrays of runge_kutta_step.  Entry [p][q] of an interior   *)
(* array belongs to cell (p+1, q+1).                                       *)
(***************************************************************************)
Laplacian(uo) ==
    [p \in 0..(nx - 3) |-> [q \in 0..(ny - 3) |->
        fdiv(fmul(D[p + 1][q + 1],
                  uo[p][q + 1] + uo[p + 2][q + 1]
                  + uo[p + 1][q] + uo[p + 1][q + 2]
                  - 4 * uo[p + 1][q + 1]),
             fmul(dx, dx))]]

\* variant: the reaction term without its leading factor u
DuDtNoFactor(lap, uo, vo) ==
    [p \in 0..(nx - 3) |-> [q \in 0..(ny - 3) |->
        LET uc == uo[p + 1][q + 1]
            vc == vo[p + 1][q + 1]
        IN  lap[p][q]
            + fmul(fmul(k, uc - a), S - uc)
            - fmul(uc, vc)]]

DuDt(lap, uo, vo) ==
    [p \in 0..(nx - 3) |-> [q \in 0..(ny - 3) |->
        LET uc == uo[p + 1][q + 1]
            vc == vo[p + 1][q + 1]
        IN  lap[p][q]
            + fmul(fmul(fmul(k, uc), uc - a), S - uc)
            - fmul(uc, vc)]]

DvDt(uo, vo) ==
    [p \in 0..(nx - 3) |-> [q \in 0..(ny - 3) |->
        LET uc == uo[p + 1][q + 1]
            vc == vo[p + 1][q + 1]
        IN  fmul(epsilon(uc, vc),
                 (-vc) - fmul(fmul(k, uc), uc - b - S))]]

\* arr[1:-1, 1:-1] += dt * d
AddInterior(arr, d) ==
    [i \in 0..(nx - 1) |-> [j \in 0..(ny - 1) |->
        IF i \in 1..(nx - 2) /\ j \in 1..(ny - 2)
        THEN arr[i][j] + fmul(dt, d[i - 1][j - 1])
        ELSE arr[i][j]]]

\* variant: the new frame is inserted at the front
SaveFrameFront(fr, arr) == <<arr>> \o fr

\* frames.append(u.copy())
SaveFrame(fr, arr) == Append(fr, arr)

(***************************************************************************)
(* Control flow: the statements of the driver loop and of                  *)
(* runge_kutta_step, in program order.                                     *)
(***************************************************************************)
\* variant: the stimulus is injected before the boundary enforcement
NextPcStimFirst(l) ==
    CASE l = "rk_copy"      -> "rk_laplacian"
      [] l = "rk_laplacian" -> "rk_du_dt"
      [] l = "rk_du_dt"     -> "rk_dv_dt"
      [] l = "rk_dv_dt"     -> "rk_update_u"
      [] l = "rk_update_u"  -> "rk_update_v"
      [] l = "rk_update_v"  -> "rk_stim"
      [] l = "rk_stim"      -> "rk_bc_u"
      [] l = "rk_bc_u"      -> "rk_bc_v"
      [] l = "rk_bc_v"      -> "save"
      [] l = "save"         -> "loop"

NextPc(l) ==
    CASE l = "rk_copy"      -> "rk_laplacian"
      [] l = "rk_laplacian" -> "rk_du_dt"
      [] l = "rk_du_dt"     -> "rk_dv_dt"
      [] l = "rk_dv_dt"     -> "rk_update_u"
      [] l = "rk_update_u"  -> "rk_update_v"
      [] l = "rk_update_v"  -> "rk_bc_u"
      [] l = "rk_bc_u"      -> "rk_bc_v"
      [] l = "rk_bc_v"      -> "rk_stim"
      [] l = "rk_stim"      -> "save"
      [] l = "save"         -> "loop"

(***************************************************************************)
(* Configurations of the bounded runs.                                     *)
(***************************************************************************)
\* int(tfin / dt)
TimeSteps(tf) == tf \div dt

\* no stimulus; the single stimulus at 0.5 s; the program's two; one whose
\* onset (3.0 s) lies after the end of the bounded runs
StimulusTimeChoices ==
    {<<>>, <<stimulus_times_ref[1]>>, stimulus_times_ref, <<30000>>}

StimulusPositionChoices ==
    { <<<<3, 3>>>>,                 \* neighbourhood clear of the two outer rings
      <<<<2, 2>>>>,                 \* neighbourhood touches row 1 and column 1
      <<<<2, 3>>, <<nx - 3, ny - 3>>>>,
      <<<<0, 3>>>>,                 \* neighbourhood leaves the grid at row -1
      <<<<nx - 1, 3>>>> }           \* neighbourhood leaves the grid at row nx

InitState(times, sites, tf) ==
    /\ stimulus_times = times
    /\ stimulus_positions = sites
    /\ time_steps = TimeSteps(tf)
    /\ u = zeros(nx, ny)
    /\ v = zeros(nx, ny)
    /\ u_old = zeros(nx, ny)
    /\ v_old = zeros(nx, ny)
    /\ laplacian = zeros(nx - 2, ny - 2)
    /\ du_dt = zeros(nx - 2, ny - 2)
    /\ dv_dt = zeros(nx - 2, ny - 2)
    /\ step = 0
    /\ t = 0
    /\ frames = <<>>
    /\ pc = "loop"

Init ==
    \E times \in StimulusTimeChoices, sites \in StimulusPositionChoices :
        InitState(times, sites, tfin)

(***************************************************************************)
(* Actions: one per statement.                                             *)
(***************************************************************************)
\* variant: t is the time at the end of the step
LoopHeadEndTime ==
    /\ pc = "loop"
    /\ IF step < time_steps
       THEN /\ t' = (step + 1) * dt
            /\ pc' = "rk_copy"
       ELSE /\ pc' = "done"
            /\ t' = t
    /\ UNCHANGED <<stimulus_positions, stimulus_times, time_steps, u, v, u_old,
                   v_old, laplacian, du_dt, dv_dt, step, frames>>

\* for step in range(time_steps): t = step * dt
LoopHead ==
    /\ pc = "loop"
    /\ IF step < time_steps
       THEN /\ t' = step * dt
            /\ pc' = "rk_copy"
       ELSE /\ pc' = "done"
            /\ t' = t
    /\ UNCHANGED <<stimulus_positions, stimulus_times, time_steps, u, v, u_old,
                   v_old, laplacian, du_dt, dv_dt, step, frames>>

\* u_old, v_old = u.copy(), v.copy()
RkCopy ==
    /\ pc = "rk_copy"
    /\ u_old' = u
    /\ v_old' = v
    /\ pc' = NextPc(pc)
    /\ UNCHANGED <<stimulus_positions, stimulus_times, time_steps, u, v,
                   laplacian, du_dt, dv_dt, step, t, frames>>

RkLaplacian ==
    /\ pc = "rk_laplacian"
    /\ laplacian' = Laplacian(u_old)
    /\ pc' = NextPc(pc)
    /\ UNCHANGED <<stimulus_positions, stimulus_times, time_steps, u, v, u_old,
                   v_old, du_dt, dv_dt, step, t, frames>>

RkDuDt ==
    /\ pc = "rk_du_dt"
    /\ du_dt' = DuDt(laplacian, u_old, v_old)
    /\ pc' = NextPc(pc)
    /\ UNCHANGED <<stimulus_positions, stimulus_times, time_steps, u, v, u_old,
                   v_old, laplacian, dv_dt, step, t, frames>>

RkDvDt ==
    /\ pc = "rk_dv_dt"
    /\ dv_dt' = DvDt(u_old, v_old)
    /\ pc' = NextPc(pc)
    /\ UNCHANGED <<stimulus_positions, stimulus_times, time_steps, u, v, u_old,
                   v_old, laplacian, du_dt, step, t, frames>>

\* u[1:-1, 1:-1] += dt * du_dt
RkUpdateU ==
    /\ pc = "rk_update_u"
    /\ u' = AddInterior(u, du_dt)
    /\ pc' = NextPc(pc)
    /\ UNCHANGED <<stimulus_positions, stimulus_times, time_steps, v, u_old,
                   v_old, laplacian, du_dt, dv_dt, step, t, frames>>

\* variant: staggered scheme, dv/dt taken from the already updated u
RkUpdateVStaggered ==
    /\ pc = "rk_update_v"
    /\ v' = AddInterior(v, DvDt(u, v_old))
    /\ pc' = NextPc(pc)
    /\ UNCHANGED <<stimulus_positions, stimulus_times, time_steps, u, u_old,
                   v_old, laplacian, du_dt, dv_dt, step, t, frames>>

\* v[1:-1, 1:-1] += dt * dv_dt
RkUpdateV ==
    /\ pc = "rk_update_v"
    /\ v' = AddInterior(v, dv_dt)
    /\ pc' = NextPc(pc)
    /\ UNCHANGED <<stimulus_positions, stimulus_times, time_steps, u, u_old,
                   v_old, laplacian, du_dt, dv_dt, step, t, frames>>

\* variant: the boundary operator is given v in place of u
RkBoundaryUWrongField ==
    /\ pc = "rk_bc_u"
    /\ v' = apply_periodic_boundary(v)
    /\ pc' = NextPc(pc)
    /\ UNCHANGED <<stimulus_positions, stimulus_times, time_steps, u, u_old,
                   v_old, laplacian, du_dt, dv_dt, step, t, frames>>

\* apply_periodic_boundary(u)
RkBoundaryU ==
    /\ pc = "rk_bc_u"
    /\ u' = apply_periodic_boundary(u)
    /\ pc' = NextPc(pc)
    /\ UNCHANGED <<stimulus_positions, stimulus_times, time_steps, v, u_old,
                   v_old, laplacian, du_dt, dv_dt, step, t, frames>>

\* apply_periodic_boundary(v)
RkBoundaryV ==
    /\ pc = "rk_bc_v"
    /\ v' = apply_periodic_boundary(v)
    /\ pc' = NextPc(pc)
    /\ UNCHANGED <<stimulus_positions, stimulus_times, time_steps, u, u_old,
                   v_old, laplacian, du_dt, dv_dt, step, t, frames>>

\* apply_stimuli(u, t, dt)
RkStimuli ==
    /\ pc = "rk_stim"
    /\ u' = apply_stimuli(u, stimulus_times, stimulus_positions, t)
    /\ pc' = NextPc(pc)
    /\ UNCHANGED <<stimulus_positions, stimulus_times, time_steps, v, u_old,
                   v_old, laplacian, du_dt, dv_dt, step, t, frames>>

\* variant: the frame is taken when step + 1 is a multiple of the stride
SaveOffByOne ==
    /\ pc = "save"
    /\ frames' = IF (step + 1) % stride = 0 THEN SaveFrame(frames, u) ELSE frames
    /\ step' = step + 1
    /\ pc' = NextPc(pc)
    /\ UNCHANGED <<stimulus_positions, stimulus_times, time_steps, u, v, u_old,
                   v_old, laplacian, du_dt, dv_dt, t>>

\* if step % 50 == 0: frames.append(u.copy()); then the next iteration
Save ==
    /\ pc = "save"
    /\ frames' = IF step % stride = 0 THEN SaveFrame(frames, u) ELSE frames
    /\ step' = step + 1
    /\ pc' = NextPc(pc)
    /\ UNCHANGED <<stimulus_positions, stimulus_times, time_steps, u, v, u_old,
                   v_old, laplacian, du_dt, dv_dt, t>>

Next ==
    \/ LoopHead
    \/ RkCopy
    \/ RkLaplacian
    \/ RkDuDt
    \/ RkDvDt
    \/ RkUpdateU
    \/ RkUpdateV
    \/ RkBoundaryU
    \/ RkBoundaryV
    \/ RkStimuli
    \/ Save

Spec == Init /\ [][Next]_vars

(***************************************************************************)
(* The reference run: the program's tfin = 100.0 s (10,000 steps) and its  *)
(* two stimulus onsets, next to the bounded runs.                          *)
(***************************************************************************)
InitRef ==
    \/ Init
    \/ InitState(stimulus_times_ref, <<<<3, 3>>>>, tfin_ref)

SpecRef == InitRef /\ [][Next]_vars

(***************************************************************************)
(* The boundary operator alone, on arbitrary input fields of r x c cells,  *)
(* 3 <= r, c <= MaxN: a ramp of distinct values or zeros, with two cells   *)
(* set to arbitrary values.                                                *)
(***************************************************************************)
InputField(r, c, ramp, c1, x1, c2, x2) ==
    [i \in 0..(r - 1) |-> [j \in 0..(c - 1) |->
        IF <<i, j>> = c1 THEN x1
        ELSE IF <<i, j>> = c2 THEN x2
        ELSE IF ramp THEN i * c + j + 1 ELSE 0]]

InitBC ==
    /\ \E r \in 3..MaxN, c \in 3..MaxN, ramp \in BOOLEAN :
        \E c1 \in (0..(r - 1)) \X (0..(c - 1)), c2 \in (0..(r - 1)) \X (0..(c - 1)),
           x1 \in 0..MaxVal, x2 \in 0..MaxVal :
            u = InputField(r, c, ramp, c1, x1, c2, x2)
    /\ stimulus_times = <<>>
    /\ stimulus_positions = <<>>
    /\ time_steps = 0
    /\ v = zeros(nx, ny)
    /\ u_old = zeros(nx, ny)
    /\ v_old = zeros(nx, ny)
    /\ laplacian = zeros(nx - 2, ny - 2)
    /\ du_dt = zeros(nx - 2, ny - 2)
    /\ dv_dt = zeros(nx - 2, ny - 2)
    /\ step = 0
    /\ t = 0
    /\ frames = <<>>
    /\ pc = "bc_call"

\* apply_periodic_boundary(arr)
BoundaryCall ==
    /\ pc = "bc_call"
    /\ u' = apply_periodic_boundary(u)
    /\ pc' = "bc_done"
    /\ UNCHANGED <<stimulus_positions, stimulus_times, time_steps, v, u_old,
                   v_old, laplacian, du_dt, dv_dt, step, t, frames>>

NextBC == BoundaryCall

SpecBC == InitBC /\ [][NextBC]_vars

(***************************************************************************)
(* Notions the properties below are stated in.                             *)
(***************************************************************************)
\* the periodic ghost-ring relation of a field
GhostRing(f) ==
    LET r == Rows(f)
        c == Cols(f)
    IN  /\ \A j \in 0..(c - 1) : f[0][j] = f[r - 2][j] /\ f[r - 1][j] = f[1][j]
        /\ \A i \in 0..(r - 1) : f[i][0] = f[i][c - 2] /\ f[i][c - 1] = f[i][1]

Sites == {stimulus_positions[n] : n \in 1..Len(stimulus_positions)}

\* the 3x3 neighbourhood of a site
InNbhd(site, i, j) ==
    /\ site[1] - 1 <= i /\ i <= site[1] + 1
    /\ site[2] - 1 <= j /\ j <= site[2] + 1

\* the site itself is a cell of the grid
SiteInGrid(site) == site[1] \in 0..(nx - 1) /\ site[2] \in 0..(ny - 1)

\* the whole 3x3 neighbourhood lies in the grid
NbhdInGrid(site) ==
    /\ 0 <= site[1] - 1 /\ site[1] + 1 <= nx - 1
    /\ 0 <= site[2] - 1 /\ site[2] + 1 <= ny - 1

\* the whole 3x3 neighbourhood lies in rows 2..nx-3 and columns 2..ny-3
NbhdClearOfRings(site) ==
    /\ 2 <= site[1] - 1 /\ site[1] + 1 <= nx - 3
    /\ 2 <= site[2] - 1 /\ site[2] + 1 <= ny - 3

Ceil(n, d) == (n + d - 1) \div d

\* no onset's window holds the time of any step of the run
NoWindowEver ==
    \A n \in 1..Len(stimulus_times) : \A s \in 0..(time_steps - 1) :
        ~StimActive(stimulus_times[n], s * dt)

\* a step has just ended: its stimulus is injected and the next step's
\* derivative computation has not begun
EndOfStep == pc \in {"save", "loop", "done", "rk_copy"}

\* the derivatives of one cell, from the cell's own values, its four
\* neighbours' potentials and its own diffusion coefficient
CellDuDt(uc, un, us, uw, ue, vc, dc) ==
    fdiv(fmul(dc, un + us + uw + ue - 4 * uc), fmul(dx, dx))
    + fmul(fmul(fmul(k, uc), uc - a), S - uc)
    - fmul(uc, vc)

CellDvDt(uc, vc) ==
    fmul(epsilon_0 + fdiv(fmul(mu1, vc), uc + mu2),
         (-vc) - fmul(fmul(k, uc), uc - b - S))

(***************************************************************************)
(* C1.  One stimulus, onset 0.5, duration 0.1, amplitude 1.0, dt = 0.01,   *)
(* at a site whose neighbourhood is in the grid: apply_stimuli adds the    *)
(* amplitude to every cell of the site's 3x3 neighbourhood in each of the  *)
(* steps 50..59, adds nothing in any other step (step 60 included), and    *)
(* never changes a cell outside the neighbourhood.                         *)
(***************************************************************************)
C1_SingleStimulus ==
    /\ stimulus_times = <<5000>>
    /\ Len(stimulus_positions) = 1
    /\ NbhdInGrid(stimulus_positions[1])

C1_StimulusSteps ==
    [][ (pc = "rk_stim" /\ C1_SingleStimulus) =>
            \A i \in 0..(nx - 1), j \in 0..(ny - 1) :
                u'[i][j] = u[i][j]
                    + (IF step \in 50..59 /\ InNbhd(stimulus_positions[1], i, j)
                       THEN stimulus_amplitude ELSE 0) ]_vars

\* the tenth and last injection has just been made at site (3,3)
C1_Witness ==
    /\ C1_SingleStimulus
    /\ stimulus_positions = <<<<3, 3>>>>
    /\ pc = "save" /\ step = 59
    /\ u[3][3] = u_old[3][3] + fmul(dt, du_dt[2][2]) + stimulus_amplitude
    /\ u[1][1] = u_old[1][1] + fmul(dt, du_dt[0][0])

(***************************************************************************)
(* C2.  A frame is appended in exactly the steps with step mod stride = 0, *)
(* in step order, so after N steps there are ceil(N / stride) frames; the  *)
(* run of 10,000 steps with stride 50 ends with exactly 200 frames.        *)
(***************************************************************************)
C2_SnapshotCount ==
    /\ [](/\ pc = "loop" => Len(frames) = Ceil(step, stride)
          /\ pc = "done" => Len(frames) = Ceil(time_steps, stride)
          /\ (pc = "done" /\ time_steps = 10000) => Len(frames) = 200)
    /\ [][ /\ (pc = "save" /\ step % stride = 0) => frames' = Append(frames, u)
           /\ frames' # frames => (pc = "save" /\ step % stride = 0) ]_vars

\* a bounded run has ended: 230 steps have left ceil(230 / 50) = 5 frames,
\* the second of them taken in step 50
C2_Witness ==
    /\ pc = "done"
    /\ time_steps = 230 /\ step = time_steps
    /\ stimulus_positions = <<<<3, 3>>>>
    /\ Len(frames) = 5
    /\ frames[1] = zeros(nx, ny)
    /\ frames[2][3][3] = stimulus_amplitude

(***************************************************************************)
(* C3.  For every input field of at least 3 rows and 3 columns, right      *)
(* after apply_periodic_boundary row 0 equals row n-2, row n-1 equals      *)
(* row 1, column 0 equals column n-2 and column n-1 equals column 1, in    *)
(* every column and row, the four corners included.                        *)
(***************************************************************************)
C3_BoundaryRelation == pc = "bc_done" => GhostRing(u)

\* a 4 x 3 ramp after the call: corner (0,0) holds the value of cell (2,1)
C3_Witness ==
    /\ pc = "bc_done"
    /\ Rows(u) = 4 /\ Cols(u) = 3
    /\ u[1][1] = 5 /\ u[2][1] = 8
    /\ u[0][0] = 8

(***************************************************************************)
(* C4.  With all-zero initial fields and no stimulus window ever active,   *)
(* every cell of u and of v is exactly zero after every step.              *)
(***************************************************************************)
C4_ZeroFixedPoint ==
    NoWindowEver => (u = zeros(nx, ny) /\ v = zeros(nx, ny))

\* a whole run with a configured stimulus whose window is never reached
C4_Witness ==
    /\ NoWindowEver
    /\ stimulus_times = <<30000>>
    /\ stimulus_positions = <<<<3, 3>>>>
    /\ pc = "done" /\ step = time_steps /\ step > 0

(***************************************************************************)
(* C5.  Within a step: derivatives, then the update of u and v, then the   *)
(* boundary enforcement on u and v, then one stimulus injection with       *)
(* t = step*dt, then the optional frame.  So the fields at the end of a    *)
(* step are that composition of the pre-update fields, a frame taken in    *)
(* step s holds the stimulus of step s, and the derivatives of the first   *)
(* injection step (50) do not see the stimulus while those of step 51 do.  *)
(***************************************************************************)
C5_StepOrder ==
    /\ pc = "save" =>
        /\ t = step * dt
        /\ du_dt = DuDt(Laplacian(u_old), u_old, v_old)
        /\ dv_dt = DvDt(u_old, v_old)
        /\ u = apply_stimuli(apply_periodic_boundary(AddInterior(u_old, du_dt)),
                             stimulus_times, stimulus_positions, step * dt)
        /\ v = apply_periodic_boundary(AddInterior(v_old, dv_dt))
    /\ (pc = "loop" /\ step > 0 /\ (step - 1) % stride = 0) =>
        frames[Len(frames)] = u
    /\ (pc = "save" /\ step = 50) =>
        (du_dt = zeros(nx - 2, ny - 2) /\ dv_dt = zeros(nx - 2, ny - 2))
    /\ ( /\ pc = "save" /\ step = 51
         /\ \E n \in 1..Len(stimulus_times) : stimulus_times[n] = 5000
         /\ \A site \in Sites : NbhdInGrid(site) ) =>
        du_dt # zeros(nx - 2, ny - 2)

\* step 50 is over: its frame holds the amplitude injected in step 50, and
\* the derivatives of step 50 were all zero
C5_Witness ==
    /\ pc = "loop" /\ step = 51
    /\ stimulus_positions = <<<<3, 3>>>>
    /\ Len(frames) = 2
    /\ frames[2][3][3] = stimulus_amplitude
    /\ frames[2] = u
    /\ du_dt = zeros(nx - 2, ny - 2)

(***************************************************************************)
(* C6.  After the two updates of runge_kutta_step, u and v at every        *)
(* interior cell (i,j) are the pre-step value plus dt times a derivative   *)
(* computed from pre-step values only: u at (i,j) and its four neighbours, *)
(* v at (i,j), D at (i,j).  u_old and v_old are the fields as they were    *)
(* when the step began and stay untouched until both updates are done.     *)
(***************************************************************************)
C6_PreStepValues ==
    /\ [](pc = "rk_bc_u" =>
            \A i \in 1..(nx - 2), j \in 1..(ny - 2) :
                /\ u[i][j] = u_old[i][j]
                    + fmul(dt, CellDuDt(u_old[i][j], u_old[i - 1][j],
                                        u_old[i + 1][j], u_old[i][j - 1],
                                        u_old[i][j + 1], v_old[i][j], D[i][j]))
                /\ v[i][j] = v_old[i][j]
                    + fmul(dt, CellDvDt(u_old[i][j], v_old[i][j])))
    /\ [][ /\ pc = "rk_copy" => (u_old' = u /\ v_old' = v)
           /\ pc \in {"rk_laplacian", "rk_du_dt", "rk_dv_dt", "rk_update_u",
                      "rk_update_v"} => UNCHANGED <<u_old, v_old>> ]_vars

\* both fields have just been updated and both changed at cell (3,3)
C6_Witness ==
    /\ pc = "rk_bc_u"
    /\ u[3][3] # u_old[3][3]
    /\ v[3][3] # v_old[3][3]
    /\ u_old[3][3] # u_old[2][3]
    /\ v_old[3][3] # 0

(***************************************************************************)
(* C7.  A configured site whose 3x3 neighbourhood is not wholly inside     *)
(* the grid is rejected at initialization: no step of the run is executed. *)
(***************************************************************************)
C7_RejectedAtInit ==
    (\E site \in Sites : ~NbhdInGrid(site)) => (pc = "loop" /\ step = 0)

(***************************************************************************)
(* C8.  The frame sequence is append-only and its entries never change:    *)
(* no step removes, reorders or alters a stored frame.                     *)
(***************************************************************************)
C8_AppendOnly ==
    [][ /\ Len(frames') >= Len(frames)
        /\ \A n \in 1..Len(frames) : frames'[n] = frames[n] ]_vars

\* three frames are stored, the second holds the first stimulus, and the
\* live field has moved on from the last stored one
C8_Witness ==
    /\ pc = "save" /\ step = 120
    /\ Len(frames) = 3
    /\ frames[1] = zeros(nx, ny)
    /\ frames[2][3][3] >= stimulus_amplitude
    /\ u # frames[3]

(***************************************************************************)
(* C9 as stated.  Every frame of the sequence is tagged with its simulated *)
(* time: the n-th entry is a pair <<time, field>> whose time is that of    *)
(* the step it was taken in.                                               *)
(***************************************************************************)
C9_Tagged ==
    \A n \in 1..Len(frames) :
        /\ DOMAIN frames[n] = {1, 2}
        /\ frames[n][1] = (n - 1) * stride * dt

(***************************************************************************)
(* C9 amended.  A frame is the bare nx x ny field and carries no tag; the  *)
(* frame at position n (counted from 0) is taken in step n * stride, at    *)
(* simulated time t = n * stride * dt, so its time is given by its         *)
(* position.                                                               *)
(***************************************************************************)
C9_TimeByPosition ==
    [][ frames' # frames =>
            /\ frames' = Append(frames, u)
            /\ DOMAIN u = 0..(nx - 1)
            /\ step = Len(frames) * stride
            /\ t = Len(frames) * stride * dt ]_vars

\* the frame of step 100 has been stored as the third entry
C9_Witness ==
    /\ pc = "loop" /\ step = 101
    /\ Len(frames) = 3
    /\ t = 2 * stride * dt
    /\ frames[3] = u

(***************************************************************************)
(* C10 as stated.  At the end of every step u and v satisfy the ghost-ring *)
(* relation, for every configuration whose sites are cells of the grid.    *)
(***************************************************************************)
C10_GhostRingAnySite ==
    (EndOfStep /\ \A site \in Sites : SiteInGrid(site)) =>
        (GhostRing(u) /\ GhostRing(v))

(***************************************************************************)
(* C10 amended.  At the end of every step v satisfies the ghost-ring       *)
(* relation, and u satisfies it when every site's 3x3 neighbourhood lies   *)
(* in rows 2..nx-3 and columns 2..ny-3.                                    *)
(***************************************************************************)
C10_GhostRingClearSites ==
    EndOfStep =>
        /\ GhostRing(v)
        /\ (\A site \in Sites : NbhdClearOfRings(site)) => GhostRing(u)

\* the excitation raised at site (3,3) has reached row 1 and its ghost copy
C10_Witness ==
    /\ pc = "save"
    /\ stimulus_positions = <<<<3, 3>>>>
    /\ u[1][3] > 0 /\ u[nx - 1][3] = u[1][3]
    /\ v[1][3] # 0 /\ v[nx - 1][3] = v[1][3]

====
